---- MODULE Spec2Model ----
(***************************************************************************)
(* LRA1 firmware tool (lra1_tool.py): the bootloader wire protocol.        *)
(*                                                                         *)
(* The tool is one sequential process; the serial device is its            *)
(* environment.  Every write to the transport and every timed read of one  *)
(* byte is a step of the model.  The device answers a write by putting a   *)
(* (possibly empty, possibly short, possibly over-long) reply into the     *)
(* serial input buffer; a timed read of an empty buffer times out.         *)
(*                                                                         *)
(* Python sequences are 0-based, TLA+ sequences 1-based: buf[i] in the     *)
(* source is At(buf, i) here.                                              *)
(***************************************************************************)
EXTENDS Integers, Sequences, FiniteSets, TLC

VARIABLES
    mode,         \* self.mode: "update", "verify" or "init"
    filename,     \* self.filename: a name on Disk
    flash_adrs,   \* self.flash_adrs
    mode_flag,    \* self.mode_flag (NONE, 0x10 or 0x12)
    file_buff,    \* self.file_buff (<<>> while None)
    file_size,    \* self.file_size
    pc,           \* position of the process
    ser,          \* serial handle: "none", "open", "closed"
    dtr,          \* ser.dtr as last set (FALSE while there is no handle)
    exit_code,    \* argument of sys.exit (0 for a normal end); read when pc = "exit"
    ret,          \* value returned by loRa_update / recv_response; read when pc is "returned", "exit" or "done"
    checksum,     \* loRa_update: checksum
    adrs,         \* loRa_update: adrs
    index,        \* loRa_update: index
    total_size,   \* loRa_update: total_size
    num,          \* loRa_update: num of the block in flight
    wait_flag,    \* loRa_update: wait_flag
    buff,         \* recv_response: buff
    expected_len, \* recv_response: expected_len
    recv_for,     \* who waits for the byte(s): "block", "final", "fast", "caller"
    in_buf,       \* serial input buffer: bytes arrived and not yet read
    out,          \* the bytes of the most recent ser.write (<<>>: nothing written yet)
    sent,         \* the frames written by send_command, in order
    notices,      \* how many times the "Wait for DFU mode" notice was printed
    command,      \* send_command: cmd, the command most recently handed to it
    flushed,      \* how many bytes the most recent ser.reset_input_buffer discarded
    stale,        \* how many leading bytes of in_buf were there before the most recent ser.write
    got           \* the byte last returned by serial_getchar_to (-1: timeout)

vars == <<mode, filename, flash_adrs, mode_flag, file_buff, file_size, pc, ser, dtr,
          exit_code, ret, checksum, adrs, index, total_size, num, wait_flag,
          buff, expected_len, recv_for, in_buf, out, sent, notices, command, flushed, stale,
          got>>

(***************************************************************************)
(* Constants of the source                                                 *)
(***************************************************************************)
FILE_MIN_SIZE == 4096
\* a variant that allows an image up to the end of the flash
FileMaxSizeToFlashEnd == 131072 - 8192
FILE_MAX_SIZE == 120000
UPDATE_ADRS == 8192
INIT_ADRS == 130560
INIT_SIZE == 512
BSL_HEADER == 128
BSL_CMD_RX_DATA_BLOCK == 16
BSL_CMD_RX_DATA_BLOCK_VERIFY == 18
BSL_CMD_LOAD_PC == 23
BSL_CMD_RX_DATA_BLOCK_FAST == 27
MAGIC_BYTES == <<105, 50, 45, 101, 108, 101, 32>>
MAGIC_OFFSET == 184
BLOCK_SIZE == 256
CMD_BLOCK_LEN == 272
\* a variant that takes a response to be one byte shorter
RespLenShort == 8 - 1
RESP_LEN == 8
PROBE_BYTE == 170
PROBE_ACK == 85
DFU_TOKEN == <<105, 50, 76, 111, 82, 97>>
RESET_TOKEN == <<3, 82, 69, 83, 69, 84, 13, 10>>
CRC_INIT == 65535
ERR_OPEN == -1
ERR_FILE == -2
ERR_TIMEOUT == -2
ERR_HEADER == -3
NONE == -1

(***************************************************************************)
(* Byte and bit helpers                                                    *)
(***************************************************************************)
At(buf, i) == buf[i + 1]

\* buf[a:b] of Python: clamped to the buffer
Slice(buf, a, b) ==
    LET hi == IF b < Len(buf) THEN b ELSE Len(buf)
    IN  IF a >= hi THEN <<>> ELSE SubSeq(buf, a + 1, hi)

Lo8(x) == x % 256
Mid8(x) == (x \div 256) % 256
Hi8(x) == (x \div 65536) % 256

RECURSIVE BitOr(_, _)
BitOr(a, b) ==
    IF a = 0 THEN b
    ELSE IF b = 0 THEN a
    ELSE (IF (a % 2 = 1) \/ (b % 2 = 1) THEN 1 ELSE 0) + 2 * BitOr(a \div 2, b \div 2)

FlipBit(x, k) == IF (x \div (2 ^ k)) % 2 = 1 THEN x - 2 ^ k ELSE x + 2 ^ k

\* x ^ 0x1021 for a 16-bit x
XorPoly(x) == FlipBit(FlipBit(FlipBit(x, 12), 5), 0)

\* one message bit into the CRC register, MSB-first, polynomial 0x1021
CrcBit(crc, bit) ==
    LET top == (crc \div 32768) % 2
        sh  == (crc * 2) % 65536
    IN  IF top # bit THEN XorPoly(sh) ELSE sh

RECURSIVE CrcByte(_, _, _)
CrcByte(crc, b, k) ==
    IF k = 0 THEN crc
    ELSE CrcByte(CrcBit(crc, (b \div (2 ^ (k - 1))) % 2), b, k - 1)

\* a ^ b for k-bit a and b
RECURSIVE XorBits(_, _, _)
XorBits(a, b, k) ==
    IF k = 0 THEN 0
    ELSE (IF a % 2 # b % 2 THEN 1 ELSE 0) + 2 * XorBits(a \div 2, b \div 2, k - 1)

Xor8 == [a \in 0..255 |-> [b \in 0..255 |-> XorBits(a, b, 8)]]

\* the CRC of each single byte: the table crc_hqx works from
CrcTab == [t \in 0..255 |-> CrcByte(t * 256, 0, 8)]

\* crc_hqx, one byte: crc = ((crc << 8) & 0xff00) ^ table[(crc >> 8) ^ b]
CrcUpdate(crc, b) ==
    LET t == CrcTab[Xor8[crc \div 256][b]]
    IN  Xor8[crc % 256][t \div 256] * 256 + (t % 256)

\* the bytes data[i..j-1] (0-based) into the CRC register, in order; the
\* range is halved so that the evaluation's depth stays logarithmic, and
\* the midpoint and the first half's result are bound through singleton
\* sets, so that each is computed once before the second half is entered
RECURSIVE CrcRange(_, _, _, _)
CrcRange(crc, data, i, j) ==
    IF i >= j THEN crc
    ELSE IF j = i + 1 THEN CrcUpdate(crc, At(data, i))
    ELSE CHOOSE r \in UNION {{CrcRange(left, data, m, j) :
                                 left \in {CrcRange(crc, data, i, m)}} :
                                    m \in {(i + j) \div 2}} : TRUE

calc_crc(data) ==
    CHOOSE r \in {CrcRange(CRC_INIT, d, 0, Len(d)) : d \in {data}} : TRUE

(***************************************************************************)
(* Pure parts of the protocol                                              *)
(***************************************************************************)
\* a variant whose CRC covers the header and the length as well
FrameCrcOverAll(cmd) ==
    LET length == Len(cmd)
        data == <<BSL_HEADER, Lo8(length), Mid8(length)>> \o cmd
    IN  CHOOSE f \in {data \o <<Lo8(crc), Mid8(crc)>> : crc \in {calc_crc(data)}} : TRUE

\* send_command: the bytes written for a command
Frame(cmd) ==
    LET length == Len(cmd)
    IN  CHOOSE f \in {<<BSL_HEADER, Lo8(length), Mid8(length)>> \o cmd \o <<Lo8(crc), Mid8(crc)>> :
                        crc \in {calc_crc(cmd)}} : TRUE

\* a variant that takes the low byte of the status from byte 4
RecvDecodeByte4(b, elen) ==
    IF elen >= 2 /\ At(b, 1) # BSL_HEADER THEN ERR_HEADER
    ELSE LET res == At(b, 0) * 256
         IN  IF elen > 5 THEN BitOr(res, At(b, 4)) ELSE res

\* recv_response, once expected_len bytes are in b
RecvDecode(b, elen) ==
    IF elen >= 2 /\ At(b, 1) # BSL_HEADER THEN ERR_HEADER
    ELSE LET res == At(b, 0) * 256
         IN  IF elen > 5 THEN BitOr(res, At(b, 5)) ELSE res

\* serial_getchar_to: the byte read, or -1 on a timeout
\* a variant that returns a zero byte when the time is up
GetCharZeroOnTimeout(buf) == IF buf = <<>> THEN 0 ELSE Head(buf)

GetChar(buf) == IF buf = <<>> THEN -1 ELSE Head(buf)
AfterGetChar(buf) == IF buf = <<>> THEN buf ELSE Tail(buf)
\* the count of bytes older than the last write, after one timed read
StaleAfterGetChar(n) == IF n > 0 THEN n - 1 ELSE 0

\* a variant that leaves the buffered input in place
reset_input_buffer_kept(buf) == buf

\* ser.reset_input_buffer(): what is left of the buffered input
reset_input_buffer(buf) == <<>>

\* a variant in which init selects the fast write
ModeFlagOfFastInit(m) ==
    IF m = "update" THEN BSL_CMD_RX_DATA_BLOCK
    ELSE IF m = "verify" THEN BSL_CMD_RX_DATA_BLOCK_VERIFY
    ELSE BSL_CMD_RX_DATA_BLOCK_FAST

\* __init__: the mode table
FlashAdrsOf(m) == IF m \in {"update", "verify"} THEN UPDATE_ADRS ELSE INIT_ADRS
ModeFlagOf(m) ==
    IF m = "update" THEN BSL_CMD_RX_DATA_BLOCK
    ELSE IF m = "verify" THEN BSL_CMD_RX_DATA_BLOCK_VERIFY
    ELSE NONE

\* send_rx_data_block: cmd[0]
BlockOpcode(flag) ==
    IF flag \in {BSL_CMD_RX_DATA_BLOCK_VERIFY, BSL_CMD_RX_DATA_BLOCK_FAST}
    THEN flag ELSE BSL_CMD_RX_DATA_BLOCK

\* loRa_update: num of the next block
BlockNum(size) == IF size >= BLOCK_SIZE THEN BLOCK_SIZE ELSE size

\* loRa_update: cmd_block after the copy loop
CmdBlock(buf, idx, n) ==
    [j \in 1..CMD_BLOCK_LEN |-> IF j >= 5 /\ j <= n + 4 THEN At(buf, idx + j - 5) ELSE 0]

\* a variant that keeps eight bits only
ChecksumAddByte(cs, b) == (cs + b) % 256

\* loRa_update, line 225: one byte into the checksum
ChecksumAdd(cs, b) == (cs + b) % 65536

\* loRa_update: checksum after the copy loop over i in lo..hi-1, in order; the
\* range is halved so that the evaluation's depth stays logarithmic, and
\* the midpoint and the first half's result are bound through singleton
\* sets, so that each is computed once before the second half is entered
RECURSIVE ChecksumBlock(_, _, _, _, _)
ChecksumBlock(cs, buf, idx, lo, hi) ==
    IF lo >= hi THEN cs
    ELSE IF hi = lo + 1 THEN ChecksumAdd(cs, At(buf, idx + lo))
    ELSE CHOOSE r \in UNION {{ChecksumBlock(left, buf, idx, m, hi) :
                                 left \in {ChecksumBlock(cs, buf, idx, lo, m)}} :
                                    m \in {(lo + hi) \div 2}} : TRUE

\* a variant that sends the whole command buffer
BlockCmdUnsliced(cmd, flag, a, n) ==
    [cmd EXCEPT ![1] = BlockOpcode(flag), ![2] = Lo8(a), ![3] = Mid8(a), ![4] = Hi8(a)]

\* send_rx_data_block: the command handed to send_command
BlockCmd(cmd, flag, a, n) ==
    LET c == [cmd EXCEPT ![1] = BlockOpcode(flag), ![2] = Lo8(a), ![3] = Mid8(a), ![4] = Hi8(a)]
    IN  Slice(c, 0, n + 4)

\* loRa_update: final_cmd
FinalCmd(cs) == <<BSL_CMD_LOAD_PC, 0, Lo8(cs), Mid8(cs)>>

\* a variant that enters the block loop with nothing left as well
MoreBlocksNonNegative(size) == size >= 0

\* a variant that leaves the loop before a short last block
MoreBlocksFullOnly(size) == size >= BLOCK_SIZE

\* loRa_update: is the block loop entered again
MoreBlocks(size) == size > 0

\* a variant that takes a full block off the remaining count every time
RemainingLessBlock(size, n) == size - BLOCK_SIZE

\* loRa_update, line 231: the remaining count after a block of n bytes
Remaining(size, n) == size - n

\* a variant that ends the transfer on the local failures only
BlockFailedLocalOnly(r) == r < 0

\* loRa_update: does a block's status end the transfer
BlockFailed(r) == r # 0

(***************************************************************************)
(* Bounds of the model                                                     *)
(***************************************************************************)
\* capacity of the serial input buffer during the handshake
MaxBuf == 2
\* an image handed directly to loRa_update has at most this many full blocks
MaxFullBlocks == 2
\* longest byte stream offered to a direct call of recv_response
MaxStream == 8
\* longest of the enumerated payloads offered to a direct call of send_command
MaxPayload == 3

(***************************************************************************)
(* The file system                                                         *)
(***************************************************************************)
Pattern(i) == (i * 37 + 11) % 256

\* n bytes with the signature at MAGIC_OFFSET; signature byte `bad` (0..6)
\* has delta added, bad = -1 leaves the signature intact
FileData(n, bad, delta) ==
    [j \in 1..n |->
        LET i == j - 1
            k == i - MAGIC_OFFSET
        IN  IF k >= 0 /\ k < Len(MAGIC_BYTES)
            THEN (IF k = bad THEN (MAGIC_BYTES[k + 1] + delta) % 256 ELSE MAGIC_BYTES[k + 1])
            ELSE Pattern(i)]

SigNames == {"sig0", "sig1", "sig2", "sig3", "sig4", "sig5", "sig6"}
SigIndex(name) ==
    CASE name = "sig0" -> 0 [] name = "sig1" -> 1 [] name = "sig2" -> 2
      [] name = "sig3" -> 3 [] name = "sig4" -> 4 [] name = "sig5" -> 5
      [] name = "sig6" -> 6

\* the files on the disk
OnDisk == {"short", "min", "odd", "max", "over", "flip"} \cup SigNames

\* the names a run is started with: a name that is not on the disk, and the
\* files on it but the largest valid one, whose transfer takes 469 blocks
FileNames == {"missing"} \cup (OnDisk \ {"max"})

Exists(name) == name \in OnDisk

\* the bytes of the files on the disk
Disk ==
    [name \in OnDisk |->
        CASE name = "short" -> FileData(FILE_MIN_SIZE - 1, -1, 0)
          [] name = "min"   -> FileData(FILE_MIN_SIZE, -1, 0)
          [] name = "odd"   -> FileData(FILE_MIN_SIZE + 44, -1, 0)
          [] name = "max"   -> FileData(FILE_MAX_SIZE, -1, 0)
          [] name = "over"  -> FileData(FILE_MAX_SIZE + 1, -1, 0)
          [] name = "flip"  -> FileData(FILE_MIN_SIZE, 6, 128)
          [] name \in SigNames -> FileData(FILE_MIN_SIZE, SigIndex(name), 1)]

\* a variant that rejects a file of exactly the largest size
load_firmware_below_max(name) ==
    IF ~Exists(name) THEN [none |-> TRUE, buff |-> <<>>, size |-> ERR_OPEN]
    ELSE LET data == Disk[name]
             st_size == Len(data)
         IN  IF st_size < FILE_MIN_SIZE \/ st_size >= FILE_MAX_SIZE
             THEN [none |-> TRUE, buff |-> <<>>, size |-> ERR_FILE]
             ELSE IF Slice(data, MAGIC_OFFSET, MAGIC_OFFSET + Len(MAGIC_BYTES)) # MAGIC_BYTES
             THEN [none |-> TRUE, buff |-> <<>>, size |-> ERR_FILE]
             ELSE [none |-> FALSE, buff |-> data, size |-> Len(data)]

\* load_firmware: (None, code) is [none |-> TRUE, size |-> code]
load_firmware(name) ==
    IF ~Exists(name) THEN [none |-> TRUE, buff |-> <<>>, size |-> ERR_OPEN]
    ELSE LET data == Disk[name]
             st_size == Len(data)
         IN  IF st_size < FILE_MIN_SIZE \/ st_size > FILE_MAX_SIZE
             THEN [none |-> TRUE, buff |-> <<>>, size |-> ERR_FILE]
             ELSE IF Slice(data, MAGIC_OFFSET, MAGIC_OFFSET + Len(MAGIC_BYTES)) # MAGIC_BYTES
             THEN [none |-> TRUE, buff |-> <<>>, size |-> ERR_FILE]
             ELSE [none |-> FALSE, buff |-> data, size |-> Len(data)]

(***************************************************************************)
(* The device                                                              *)
(***************************************************************************)
\* what may sit in the input buffer before loRa_update flushes it
StaleInputs == {<<>>, <<85>>, <<170, 85>>}

\* what the device may send while the tool opens the port or waits in one
\* of the resets
WaitArrivals == {<<>>, <<85>>, <<170>>}

\* replies to a probe byte or to the DFU token
HandshakeReplies == {<<>>, <<85>>, <<170>>, <<170, 7>>}

\* replies to a framed command: acknowledge, acknowledge with other reserved
\* bytes, device error in byte 0, device error in byte 5, wrong header,
\* silence, a response cut short, a response with a surplus byte
CmdReplies ==
    { <<0, 128, 0, 0, 0, 0, 0, 0>>,
      <<0, 128, 1, 2, 3, 0, 4, 5>>,
      <<81, 128, 0, 0, 0, 0, 0, 0>>,
      <<0, 128, 0, 0, 0, 5, 0, 0>>,
      <<0, 0, 0, 0, 0, 0, 0, 0>>,
      <<>>,
      <<0, 128, 0>>,
      <<0, 128, 0, 0, 0, 0, 0, 0, 153>> }

\* bytes that arrive while send_command builds its frame, after the input was
\* flushed (line 133) and before the frame is written (line 138)
LateArrivals == {<<>>, <<153>>}

(***************************************************************************)
(* Inputs of the direct calls                                              *)
(***************************************************************************)
Modes == {"update", "verify", "init"}

ImageSizes == {BLOCK_SIZE * q + r : q \in 0..MaxFullBlocks, r \in {0, 1, 44, 255}}
Images == {[j \in 1..n |-> Pattern(j - 1)] : n \in ImageSizes}
             \cup {[j \in 1..n |-> 255] : n \in {300}}

RespBytes == {0, 128, 255}
RecvLens == {1, 2, 5, 6, 8}
RECURSIVE Streams(_)
Streams(n) ==
    IF n = 0 THEN {<<>>}
    ELSE LET shorter == Streams(n - 1)
         IN  shorter \cup {Append(s, b) : s \in {t \in shorter : Len(t) = n - 1}, b \in RespBytes}

\* payloads of a direct call of send_command: every short one over three
\* byte values, the text "123456789", and payloads as long as a short and a
\* full block command and beyond (a length of two bytes)
PayloadBytes == {0, 23, 255}
RECURSIVE ShortPayloads(_)
ShortPayloads(n) ==
    IF n = 0 THEN {<<>>}
    ELSE LET shorter == ShortPayloads(n - 1)
         IN  shorter \cup {Append(s, b) : s \in {t \in shorter : Len(t) = n - 1},
                                           b \in PayloadBytes}
Payloads ==
    ShortPayloads(MaxPayload)
        \cup {<<49, 50, 51, 52, 53, 54, 55, 56, 57>>}
        \cup {[j \in 1..n |-> Pattern(j)] : n \in {48, 255, 256, 260, 600}}

(***************************************************************************)
(* Decisions of the control flow                                           *)
(***************************************************************************)
\* a variant that takes the probe's acknowledgement for the token's
TokenAckedAsProbe(c) == c = PROBE_ACK
\* a variant that prints the notice on every failed iteration
NoticeAlways(flag) == TRUE
\* a variant that leaves the handshake loop after one failed iteration
HandshakeLoopOnce == FALSE

\* a variant that writes the token after any probe reply, a timeout included
ProbeAckedAny(c) == TRUE
\* loRa_update: the probe reply that leads to the token
ProbeAcked(c) == c = PROBE_ACK
\* loRa_update: the token reply that ends the handshake
TokenAcked(c) == c = PROBE_BYTE
\* loRa_update: is the notice printed now
NoticeDue(flag) == ~flag
\* loRa_update, line 205: the condition of the handshake loop
HandshakeLoopCond == TRUE
\* run: which result of loRa_update is reported as an error
IsError(r) == r # 0

\* a variant that closes the port on the successful path only
HandleClosedOnSuccess(r) == IF r = 0 THEN "closed" ELSE "open"

\* run, line 279: the handle after loRa_update has returned r
HandleAfterUpdate(r) == "closed"

(***************************************************************************)
(* run                                                                     *)
(***************************************************************************)
tool_fields == <<mode, filename, flash_adrs, mode_flag>>
update_locals == <<checksum, adrs, index, total_size, num, wait_flag>>
recv_locals == <<buff, expected_len, recv_for, got>>
wire == <<in_buf, out, sent, stale>>

\* bytes the device sends join the input buffer while there is room
Arrives(buf, reply) == Len(buf) + Len(reply) <= MaxBuf

\* run, lines 250-265: build or load the image
RunLoad ==
    /\ pc = "start"
    /\ IF mode = "init"
       THEN /\ file_size' = INIT_SIZE
            /\ file_buff' = [j \in 1..INIT_SIZE |-> 0]
            /\ pc' = "open"
            /\ UNCHANGED exit_code
       ELSE LET r == load_firmware(filename)
            IN  /\ file_buff' = r.buff
                /\ file_size' = r.size
                /\ IF r.none
                   THEN pc' = "exit" /\ exit_code' = r.size
                   ELSE pc' = "open" /\ UNCHANGED exit_code
    /\ UNCHANGED <<tool_fields, dtr, command, flushed, ser, ret, update_locals, recv_locals, wire, notices>>

\* run, lines 266-271: the port cannot be opened
RunOpenFails ==
    /\ pc = "open"
    /\ pc' = "exit"
    /\ exit_code' = ERR_OPEN
    /\ UNCHANGED <<tool_fields, dtr, command, flushed, file_buff, file_size, ser, ret, update_locals,
                   recv_locals, wire, notices>>

\* run, lines 266-276: open the port and set DTR; bytes the device has sent
\* by then wait in the input buffer.  sw_reset and use_reset are the command
\* line's choice; the action ends where the first of the two resets asked
\* for is entered, or at the call of loRa_update
RunOpen ==
    /\ pc = "open"
    /\ ser' = "open"
    /\ dtr' = TRUE
    /\ \E arrived \in WaitArrivals :
          /\ Arrives(in_buf, arrived)
          /\ in_buf' = in_buf \o arrived
          /\ stale' = Len(in_buf \o arrived)
    /\ \E sw_reset, use_reset \in BOOLEAN :
          pc' = IF sw_reset THEN "reset_cmd"
                ELSE IF use_reset THEN "reset_dtr" ELSE "update_begin"
    /\ UNCHANGED <<tool_fields, command, flushed, file_buff, file_size, exit_code, ret, update_locals,
                   recv_locals, out, sent, notices>>

\* reset_cmd, lines 86-88: the input is discarded (nothing waits to be sent
\* when the output is discarded), then the break is sent for 1 ms, during
\* which the device may send
ResetCmdFlush ==
    /\ pc = "reset_cmd"
    /\ flushed' = Len(in_buf) - Len(reset_input_buffer(in_buf))
    /\ \E arrived \in WaitArrivals :
          /\ Arrives(reset_input_buffer(in_buf), arrived)
          /\ in_buf' = reset_input_buffer(in_buf) \o arrived
          /\ stale' = Len(reset_input_buffer(in_buf) \o arrived)
    /\ pc' = "reset_write"
    /\ UNCHANGED <<tool_fields, dtr, command, file_buff, file_size, ser, exit_code, ret, update_locals,
                   recv_locals, out, sent, notices>>

\* reset_cmd, lines 89-90, and run, line 276: the RESET text is written and
\* the tool sleeps 100 ms, during which the device may send
ResetCmdWrite ==
    /\ pc = "reset_write"
    /\ out' = RESET_TOKEN
    /\ stale' = Len(in_buf)
    /\ \E arrived \in WaitArrivals :
          /\ Arrives(in_buf, arrived)
          /\ in_buf' = in_buf \o arrived
    /\ \E use_reset \in BOOLEAN :
          pc' = IF use_reset THEN "reset_dtr" ELSE "update_begin"
    /\ UNCHANGED <<tool_fields, dtr, command, flushed, file_buff, file_size, ser, exit_code, ret,
                   update_locals, recv_locals, sent, notices>>

\* reset_dtr, lines 78-79: DTR is dropped and the tool sleeps 100 ms, during
\* which the device may send; nothing is written or discarded
ResetDtrLower ==
    /\ pc = "reset_dtr"
    /\ dtr' = FALSE
    /\ \E arrived \in WaitArrivals :
          /\ Arrives(in_buf, arrived)
          /\ in_buf' = in_buf \o arrived
          /\ stale' = IF out = <<>> THEN Len(in_buf \o arrived) ELSE stale
    /\ pc' = "reset_dtr_raise"
    /\ UNCHANGED <<tool_fields, command, flushed, file_buff, file_size, ser, exit_code, ret,
                   update_locals, recv_locals, out, sent, notices>>

\* reset_dtr, lines 80-81: DTR is raised and the tool sleeps 50 ms, during
\* which the device may send; then loRa_update is called
ResetDtrRaise ==
    /\ pc = "reset_dtr_raise"
    /\ dtr' = TRUE
    /\ \E arrived \in WaitArrivals :
          /\ Arrives(in_buf, arrived)
          /\ in_buf' = in_buf \o arrived
          /\ stale' = IF out = <<>> THEN Len(in_buf \o arrived) ELSE stale
    /\ pc' = "update_begin"
    /\ UNCHANGED <<tool_fields, command, flushed, file_buff, file_size, ser, exit_code, ret,
                   update_locals, recv_locals, out, sent, notices>>

\* run, lines 279-283: close the port and report
RunClose ==
    /\ pc = "returned"
    /\ ser' = HandleAfterUpdate(ret)
    /\ exit_code' = IF IsError(ret) THEN ret ELSE 0
    /\ pc' = "exit"
    /\ UNCHANGED <<tool_fields, dtr, command, flushed, file_buff, file_size, ret, update_locals,
                   recv_locals, wire, notices>>

(***************************************************************************)
(* loRa_update: the handshake                                              *)
(***************************************************************************)
\* lines 200-203
UpdateBegin ==
    /\ pc = "update_begin"
    /\ checksum' = 0
    /\ adrs' = flash_adrs
    /\ in_buf' = reset_input_buffer(in_buf)
    /\ stale' = Len(reset_input_buffer(in_buf))
    /\ flushed' = Len(in_buf) - Len(reset_input_buffer(in_buf))
    /\ wait_flag' = FALSE
    /\ pc' = "probe"
    /\ UNCHANGED <<tool_fields, dtr, command, file_buff, file_size, ser, exit_code, ret, index,
                   total_size, num, recv_locals, out, sent, notices>>

\* lines 211-213, and the loop's condition at line 205
NoticeAndLoop ==
    /\ IF NoticeDue(wait_flag)
       THEN notices' = notices + 1 /\ wait_flag' = TRUE
       ELSE UNCHANGED <<notices, wait_flag>>
    /\ IF HandshakeLoopCond
       THEN pc' = "probe" /\ UNCHANGED <<total_size, index>>
       ELSE pc' = "loop" /\ total_size' = file_size /\ index' = 0

\* line 206
Probe ==
    /\ pc = "probe"
    /\ out' = <<PROBE_BYTE>>
    /\ \E reply \in HandshakeReplies :
          /\ Arrives(in_buf, reply)
          /\ in_buf' = in_buf \o reply
    /\ stale' = Len(in_buf)
    /\ pc' = "probe_wait"
    /\ UNCHANGED <<tool_fields, dtr, command, flushed, file_buff, file_size, ser, exit_code, ret,
                   update_locals, recv_locals, sent, notices>>

\* lines 207-208: the probe is acknowledged, the token is written
ProbeOk ==
    /\ pc = "probe_wait"
    /\ ProbeAcked(GetChar(in_buf))
    /\ got' = GetChar(in_buf)
    /\ out' = DFU_TOKEN
    /\ \E reply \in HandshakeReplies :
          /\ Arrives(AfterGetChar(in_buf), reply)
          /\ in_buf' = AfterGetChar(in_buf) \o reply
    /\ stale' = Len(AfterGetChar(in_buf))
    /\ pc' = "token_wait"
    /\ UNCHANGED <<tool_fields, dtr, command, flushed, file_buff, file_size, ser, exit_code, ret,
                   update_locals, buff, expected_len, recv_for, sent, notices>>

\* lines 207, 211-213: the probe is not acknowledged
ProbeFails ==
    /\ pc = "probe_wait"
    /\ ~ProbeAcked(GetChar(in_buf))
    /\ got' = GetChar(in_buf)
    /\ in_buf' = AfterGetChar(in_buf)
    /\ stale' = StaleAfterGetChar(stale)
    /\ NoticeAndLoop
    /\ UNCHANGED <<tool_fields, dtr, command, flushed, file_buff, file_size, ser, exit_code, ret, checksum,
                   adrs, num, buff, expected_len, recv_for, out, sent>>

\* lines 209-210, 215-216: the token is acknowledged, the loop is left
TokenOk ==
    /\ pc = "token_wait"
    /\ TokenAcked(GetChar(in_buf))
    /\ got' = GetChar(in_buf)
    /\ in_buf' = AfterGetChar(in_buf)
    /\ stale' = StaleAfterGetChar(stale)
    /\ total_size' = file_size
    /\ index' = 0
    /\ pc' = "loop"
    /\ UNCHANGED <<tool_fields, dtr, command, flushed, file_buff, file_size, ser, exit_code, ret, checksum,
                   adrs, num, wait_flag, buff, expected_len, recv_for, out, sent, notices>>

\* lines 209, 211-213: the token is not acknowledged
TokenFails ==
    /\ pc = "token_wait"
    /\ ~TokenAcked(GetChar(in_buf))
    /\ got' = GetChar(in_buf)
    /\ in_buf' = AfterGetChar(in_buf)
    /\ stale' = StaleAfterGetChar(stale)
    /\ NoticeAndLoop
    /\ UNCHANGED <<tool_fields, dtr, command, flushed, file_buff, file_size, ser, exit_code, ret, checksum,
                   adrs, num, buff, expected_len, recv_for, out, sent>>

(***************************************************************************)
(* loRa_update: the transfer                                               *)
(***************************************************************************)
\* send_command: flush the input, build and write the frame; the device's
\* reply arrives
SendCommand(c) ==
    /\ \E cm \in {c} :
          /\ command' = cm
          /\ \E frame \in {Frame(cm)} :
                /\ out' = frame
                /\ sent' = Append(sent, frame)
    /\ flushed' = Len(in_buf) - Len(reset_input_buffer(in_buf))
    /\ \E late \in LateArrivals, reply \in CmdReplies :
          LET kept == reset_input_buffer(in_buf) \o late
          IN  /\ in_buf' = kept \o reply
              /\ stale' = Len(kept)

\* lines 218-226 with send_rx_data_block, lines 146-158, up to the first read
SendBlock ==
    /\ pc = "loop"
    /\ MoreBlocks(file_size)
    /\ \E n \in {BlockNum(file_size)} :
          \E cmd_block \in {CmdBlock(file_buff, index, n)} :
             /\ num' = n
             /\ checksum' = ChecksumBlock(checksum, file_buff, index, 0, n)
             /\ SendCommand(BlockCmd(cmd_block, mode_flag, adrs, n))
    /\ IF mode_flag = BSL_CMD_RX_DATA_BLOCK_FAST
       THEN recv_for' = "fast" /\ expected_len' = 1
       ELSE recv_for' = "block" /\ expected_len' = RESP_LEN
    /\ buff' = <<>>
    /\ pc' = "recv"
    /\ UNCHANGED <<tool_fields, dtr, file_buff, file_size, ser, exit_code, ret, adrs,
                   index, total_size, wait_flag, got, notices>>

\* lines 233-241, up to the first read
SendFinal ==
    /\ pc = "loop"
    /\ ~MoreBlocks(file_size)
    /\ SendCommand(FinalCmd(checksum))
    /\ recv_for' = "final"
    /\ expected_len' = RESP_LEN
    /\ buff' = <<>>
    /\ pc' = "recv"
    /\ UNCHANGED <<tool_fields, dtr, file_buff, file_size, ser, exit_code, ret,
                   update_locals, got, notices>>

\* what the waiting code does with the value r: lines 227-231 for a block,
\* line 241 for the final command
Return(r) ==
    IF recv_for = "caller"
    THEN /\ pc' = "done"
         /\ ret' = r
         /\ UNCHANGED <<adrs, index, file_size>>
    ELSE IF recv_for = "final"
    THEN /\ pc' = "returned"
         /\ ret' = r
         /\ UNCHANGED <<adrs, index, file_size>>
    ELSE IF BlockFailed(r)
    THEN /\ pc' = "returned"
         /\ ret' = r
         /\ UNCHANGED <<adrs, index, file_size>>
    ELSE /\ adrs' = adrs + num
         /\ index' = index + num
         /\ file_size' = Remaining(file_size, num)
         /\ pc' = "loop"
         /\ UNCHANGED ret

\* recv_response, lines 113-125: one timed read, and the decoding after the
\* last one (line 157 for the fast opcode: the byte itself is the result)
RecvByte ==
    /\ pc = "recv"
    /\ LET c == GetChar(in_buf)
       IN  /\ got' = c
           /\ in_buf' = AfterGetChar(in_buf)
           /\ stale' = StaleAfterGetChar(stale)
           /\ IF recv_for = "fast"
              THEN Return(c) /\ UNCHANGED buff
              ELSE IF c < 0
              THEN Return(ERR_TIMEOUT) /\ UNCHANGED buff
              ELSE /\ buff' = Append(buff, c)
                   /\ IF Len(buff) + 1 = expected_len
                      THEN Return(RecvDecode(Append(buff, c), expected_len))
                      ELSE UNCHANGED <<pc, ret, adrs, index, file_size>>
    /\ UNCHANGED <<tool_fields, dtr, command, flushed, file_buff, ser, exit_code, checksum, total_size, num,
                   wait_flag, expected_len, recv_for, out, sent, notices>>

(***************************************************************************)
(* Specifications                                                          *)
(***************************************************************************)
Idle ==
    /\ file_buff = <<>> /\ file_size = 0
    /\ exit_code = 0 /\ ret = 0
    /\ checksum = 0 /\ adrs = 0 /\ index = 0 /\ total_size = 0 /\ num = 0
    /\ wait_flag = FALSE
    /\ buff = <<>> /\ expected_len = 0 /\ recv_for = "none" /\ got = -1
    /\ in_buf = <<>> /\ out = <<>> /\ sent = <<>> /\ notices = 0
    /\ command = <<>> /\ stale = 0 /\ flushed = 0

\* __init__, lines 59-72, then run is entered
Init ==
    /\ mode \in Modes
    /\ filename \in IF mode = "init" THEN {"missing"} ELSE FileNames
    /\ flash_adrs = FlashAdrsOf(mode)
    /\ mode_flag = ModeFlagOf(mode)
    /\ pc = "start"
    /\ ser = "none" /\ dtr = FALSE
    /\ Idle

Transfer ==
    \/ UpdateBegin
    \/ Probe \/ ProbeOk \/ ProbeFails \/ TokenOk \/ TokenFails
    \/ SendBlock \/ SendFinal \/ RecvByte

Next ==
    \/ RunLoad \/ RunOpenFails \/ RunOpen
    \/ ResetCmdFlush \/ ResetCmdWrite \/ ResetDtrLower \/ ResetDtrRaise
    \/ Transfer \/ RunClose

Spec == Init /\ [][Next]_vars

\* loRa_update called on a tool whose image was set by the caller
InitUpdate ==
    /\ mode \in Modes
    /\ filename = "missing"
    /\ flash_adrs = FlashAdrsOf(mode)
    /\ mode_flag = ModeFlagOf(mode)
    /\ file_buff \in Images
    /\ file_size = Len(file_buff)
    /\ pc = "update_begin"
    /\ ser = "open" /\ dtr = TRUE
    /\ exit_code = 0 /\ ret = 0
    /\ checksum = 0 /\ adrs = 0 /\ index = 0 /\ total_size = 0 /\ num = 0
    /\ wait_flag = FALSE
    /\ buff = <<>> /\ expected_len = 0 /\ recv_for = "none" /\ got = -1
    /\ in_buf \in StaleInputs
    /\ stale = Len(in_buf)
    /\ out = <<>> /\ sent = <<>> /\ notices = 0 /\ command = <<>> /\ flushed = 0

SpecUpdate == InitUpdate /\ [][Transfer]_vars

\* the process is sequential and is always scheduled: it takes its next step
LiveUpdate == InitUpdate /\ [][Transfer]_vars /\ WF_vars(Transfer)

\* recv_response called on a transport that holds a byte stream
InitRecv ==
    /\ mode = "update"
    /\ filename = "missing"
    /\ flash_adrs = FlashAdrsOf(mode)
    /\ mode_flag = ModeFlagOf(mode)
    /\ pc = "recv"
    /\ ser = "open" /\ dtr = TRUE
    /\ file_buff = <<>> /\ file_size = 0
    /\ exit_code = 0 /\ ret = 0
    /\ checksum = 0 /\ adrs = 0 /\ index = 0 /\ total_size = 0 /\ num = 0
    /\ wait_flag = FALSE
    /\ buff = <<>>
    /\ expected_len \in RecvLens
    /\ recv_for = "caller"
    /\ got = -1
    /\ in_buf \in Streams(MaxStream)
    /\ stale = Len(in_buf)
    /\ out = <<>> /\ sent = <<>> /\ notices = 0 /\ command = <<>> /\ flushed = 0

SpecRecv == InitRecv /\ [][RecvByte]_vars

\* send_command called with a payload, lines 133-138
SendDirect ==
    /\ pc = "send"
    /\ SendCommand(command)
    /\ pc' = "done"
    /\ UNCHANGED <<tool_fields, dtr, file_buff, file_size, ser, exit_code, ret,
                   update_locals, recv_locals, notices>>

InitFrame ==
    /\ mode = "update"
    /\ filename = "missing"
    /\ flash_adrs = FlashAdrsOf(mode)
    /\ mode_flag = ModeFlagOf(mode)
    /\ pc = "send"
    /\ ser = "open" /\ dtr = TRUE
    /\ file_buff = <<>> /\ file_size = 0
    /\ exit_code = 0 /\ ret = 0
    /\ checksum = 0 /\ adrs = 0 /\ index = 0 /\ total_size = 0 /\ num = 0
    /\ wait_flag = FALSE
    /\ buff = <<>> /\ expected_len = 0 /\ recv_for = "none" /\ got = -1
    /\ in_buf \in StaleInputs
    /\ stale = Len(in_buf)
    /\ out = <<>> /\ sent = <<>> /\ notices = 0
    /\ command \in Payloads
    /\ flushed = 0

SpecFrame == InitFrame /\ [][SendDirect]_vars

(***************************************************************************)
(* Reading the wire                                                        *)
(***************************************************************************)
FramePayload(f) == SubSeq(f, 4, Len(f) - 2)
FrameOpcode(f) == f[4]
FrameAddr(f) == f[5] + 256 * f[6] + 65536 * f[7]
FrameData(f) == SubSeq(f, 8, Len(f) - 2)
IsFinalFrame(f) == FrameOpcode(f) = 23
IsBlockFrame(f) == FrameOpcode(f) \in {16, 18, 27}

\* blocks needed for n bytes
BlocksFor(n) == (n + 255) \div 256

RECURSIVE ByteSum(_, _, _)
\* plain sum of s[lo..hi] (1-based, inclusive)
ByteSum(s, lo, hi) ==
    IF lo > hi THEN 0
    ELSE IF lo = hi THEN s[lo]
    ELSE LET m == (lo + hi) \div 2 IN ByteSum(s, lo, m) + ByteSum(s, m + 1, hi)

\* the status a complete read stands for: b the bytes read, g the last byte
\* returned by the timed read
StatusOf(b, g) ==
    IF g < 0 THEN -2
    ELSE IF b[2] # 128 THEN -3
    ELSE 256 * b[1] + b[6]

Ended == pc \in {"returned", "exit"}

(***************************************************************************)
(* C1: a block whose response decodes to a non-zero status (a device code, *)
(* the timeout -2, the malformed frame -3) ends the transfer at once: the  *)
(* blocks sent are exactly the k sent so far, the session is not advanced, *)
(* nothing is written afterwards, and loRa_update returns that status.     *)
(***************************************************************************)
C1_Step ==
    (pc = "recv" /\ recv_for = "block" /\ (got' < 0 \/ Len(buff') = 8)) =>
        LET st == StatusOf(buff', got')
        IN  IF st # 0
            THEN /\ pc' = "returned"
                 /\ ret' = st
                 /\ sent' = sent /\ out' = out
                 /\ Len(sent) = (index \div 256) + 1
                 /\ UNCHANGED <<adrs, index, file_size>>
            ELSE pc' = "loop"

C1_Ended ==
    (Ended /\ recv_for = "block") =>
        /\ ret # 0
        /\ ret = StatusOf(buff, got)
        /\ Len(sent) = (index \div 256) + 1
        /\ \A i \in 1..Len(sent) : IsBlockFrame(sent[i])

C1_After == Ended => (sent' = sent /\ out' = out /\ ret' = ret /\ Ended')

C1_AbortOnBlockError == [](C1_Ended) /\ [][C1_Step]_vars /\ [][C1_After]_vars

\* block 5 of 16 is answered with device code 0x5100
C1_Witness ==
    /\ pc = "exit" /\ recv_for = "block"
    /\ ret = 20736 /\ exit_code = 20736
    /\ Len(sent) = 5
    /\ BlocksFor(total_size) = 16

(***************************************************************************)
(* C2: the frames of the blocks: block i (0-based) carries                 *)
(* num = min(256, n - 256 i) image bytes from offset 256 i, in a payload   *)
(* of num + 4 bytes, at address base + 256 i in three little-endian bytes; *)
(* when all blocks are acknowledged exactly ceil(n / 256) were sent.       *)
(***************************************************************************)
C2_BlockOk(i) ==
    LET f == sent[i]
        n == Len(file_buff)
        off == 256 * (i - 1)
        k == IF n - off < 256 THEN n - off ELSE 256
        a == flash_adrs + off
    IN  /\ IsBlockFrame(f)
        /\ k > 0
        /\ Len(FramePayload(f)) = k + 4
        /\ FrameData(f) = SubSeq(file_buff, off + 1, off + k)
        /\ f[5] = a % 256 /\ f[6] = (a \div 256) % 256 /\ f[7] = (a \div 65536) % 256
        /\ FrameAddr(f) = a

C2_BlockFrames ==
    /\ Len(sent) <= BlocksFor(Len(file_buff)) + 1
    /\ \A i \in 1..Len(sent) : i <= BlocksFor(Len(file_buff)) => C2_BlockOk(i)
    /\ (Ended /\ recv_for = "final") =>
          Cardinality({i \in 1..Len(sent) : IsBlockFrame(sent[i])}) = BlocksFor(Len(file_buff))

\* 300 bytes: 256 at base, 44 at base + 256, then the final command
C2_Witness ==
    /\ Len(file_buff) = 300
    /\ mode = "update"
    /\ Len(sent) = 3
    /\ Len(FrameData(sent[1])) = 256 /\ FrameAddr(sent[1]) = 8192
    /\ Len(FrameData(sent[2])) = 44 /\ FrameAddr(sent[2]) = 8448
    /\ pc = "returned" /\ ret = 0

(***************************************************************************)
(* C3: the checksum is in 0..65535, is the sum modulo 65536 of the data    *)
(* bytes of all blocks sent so far, and the final command carries          *)
(* [0x17, 0, c & 0xFF, c >> 8] for c the sum modulo 65536 of the image.    *)
(***************************************************************************)
C3_SentDataSum ==
    LET blocks == {i \in 1..Len(sent) : IsBlockFrame(sent[i])}
        covered == IF blocks = {} THEN 0
                   ELSE 256 * (Cardinality(blocks) - 1)
                        + Len(FrameData(sent[Cardinality(blocks)]))
    IN  ByteSum(file_buff, 1, covered)

C3_Checksum ==
    /\ checksum \in 0..65535
    /\ checksum = C3_SentDataSum % 65536
    /\ \A i \in 1..Len(sent) :
          IsFinalFrame(sent[i]) =>
             LET c == ByteSum(file_buff, 1, Len(file_buff)) % 65536
             IN  FramePayload(sent[i]) = <<23, 0, c % 256, c \div 256>>

\* a final command was sent for an image whose byte sum exceeds 65535
C3_Witness ==
    /\ Len(sent) > 0
    /\ IsFinalFrame(sent[Len(sent)])
    /\ ByteSum(file_buff, 1, Len(file_buff)) > 65535
    /\ checksum = ByteSum(file_buff, 1, Len(file_buff)) - 65536

(***************************************************************************)
(* C4: the final command is sent at most once, as the last frame, exactly  *)
(* when all blocks were acknowledged and nothing remains (at once for an   *)
(* empty image); loRa_update then returns the status of its response, and  *)
(* returns 0 only after the handshake, all blocks and a final response     *)
(* that decodes to 0.                                                      *)
(***************************************************************************)
C4_State ==
    /\ \A i \in 1..Len(sent) :
          IsFinalFrame(sent[i]) =>
             /\ i = Len(sent)
             /\ i = BlocksFor(Len(file_buff)) + 1
             /\ file_size = 0
             /\ index = Len(file_buff)
             /\ recv_for = "final"
    /\ (Ended /\ recv_for = "final") =>
          /\ IsFinalFrame(sent[Len(sent)])
          /\ ret = StatusOf(buff, got)
    /\ (Ended /\ recv_for # "final") => ret # 0
    /\ (Ended /\ ret = 0) =>
          /\ Len(sent) = BlocksFor(Len(file_buff)) + 1
          /\ IsFinalFrame(sent[Len(sent)])
          /\ got >= 0 /\ buff[1] = 0 /\ buff[2] = 128 /\ buff[6] = 0

\* the block loop is entered from the handshake only, on the token's 0xAA;
\* at the head of the loop the next frame is the final command exactly when
\* nothing remains
C4_Step ==
    /\ (pc' = "loop" /\ pc \notin {"loop", "recv"}) =>
          (pc = "token_wait" /\ in_buf # <<>> /\ Head(in_buf) = 170)
    /\ pc = "loop" =>
          /\ Len(sent') = Len(sent) + 1
          /\ IsFinalFrame(sent'[Len(sent')]) <=> (file_size = 0)

C4_FinalizeOnce == [](C4_State) /\ [][C4_Step]_vars

\* the empty image: no block, the final command with checksum 0, result 0
C4_Witness ==
    /\ Len(file_buff) = 0
    /\ pc = "returned" /\ ret = 0
    /\ Len(sent) = 1
    /\ FramePayload(sent[1]) = <<23, 0, 0, 0>>

(***************************************************************************)
(* C5: the handshake: a probing attempt writes the single byte 0xAA; the   *)
(* token "i2LoRa" is written only right after a probe whose reply is 0x55; *)
(* the block loop is reached only on the reply 0xAA to the token; any      *)
(* other reply, or a timeout, at either read leads back to a new probe.    *)
(***************************************************************************)
\* the byte the next timed read returns (-1: a timeout)
NextReply == IF in_buf = <<>> THEN -1 ELSE Head(in_buf)

InHandshake == pc \in {"update_begin", "probe", "probe_wait", "token_wait"}

C5_State ==
    /\ pc = "probe_wait" => out = <<170>>
    /\ pc = "token_wait" => (out = <<105, 50, 76, 111, 82, 97>> /\ got = 85)
    /\ InHandshake => sent = <<>>

C5_Step ==
    /\ pc = "probe" => (pc' = "probe_wait" /\ out' = <<170>>)
    /\ (pc = "probe_wait" /\ NextReply = 85) =>
          (pc' = "token_wait" /\ out' = <<105, 50, 76, 111, 82, 97>>)
    /\ (pc = "probe_wait" /\ NextReply # 85) => (pc' = "probe" /\ out' = out)
    /\ (pc = "token_wait" /\ NextReply = 170) => (pc' = "loop" /\ out' = out)
    /\ (pc = "token_wait" /\ NextReply # 170) => (pc' = "probe" /\ out' = out)
    /\ (pc # "token_wait" /\ pc' = "token_wait") => (pc = "probe_wait" /\ NextReply = 85)
    /\ (InHandshake /\ ~InHandshake') => (pc = "token_wait" /\ NextReply = 170)

C5_Handshake == [](C5_State) /\ [][C5_Step]_vars

\* the block loop is reached on the token's 0xAA after a failed iteration
C5_Witness ==
    /\ pc = "loop" /\ sent = <<>>
    /\ got = 170 /\ out = <<105, 50, 76, 111, 82, 97>>
    /\ notices = 1

(***************************************************************************)
(* C6: the handshake never gives up: it is left only by a completed        *)
(* exchange, never into an end of the run, and as long as the exchange     *)
(* does not complete a probe byte is written again and again.              *)
(***************************************************************************)
C6_Step ==
    InHandshake =>
        \/ InHandshake'
        \/ (pc' = "loop" /\ pc = "token_wait" /\ NextReply = 170)

C6_NeverGivesUp ==
    /\ [][C6_Step]_vars
    /\ [](InHandshake => ~Ended)
    /\ (<>(~InHandshake) \/ []<>(pc = "probe_wait" /\ out = <<170>>))

\* a probe is written again after an iteration failed at the token
C6_Witness ==
    /\ pc = "probe_wait" /\ out = <<170>>
    /\ wait_flag /\ got = -1 /\ notices = 1

(***************************************************************************)
(* C7 as stated: the notice is printed at most once, at the first          *)
(* iteration whose probe reply is not 0x55, and at no other step.          *)
(***************************************************************************)
C7_Original ==
    /\ [](notices <= 1)
    /\ [][(notices' # notices) <=>
            (pc = "probe_wait" /\ NextReply # 85 /\ notices = 0)]_vars

(***************************************************************************)
(* C7, amended: the notice is printed at most once, at the first           *)
(* iteration that fails, whether its probe reply is not 0x55 or its token  *)
(* reply is not 0xAA, and at no other step.                                *)
(***************************************************************************)
C7_IterationFails ==
    \/ (pc = "probe_wait" /\ NextReply # 85)
    \/ (pc = "token_wait" /\ NextReply # 170)

C7_NoticeOnce ==
    /\ [](notices <= 1)
    /\ [][(notices' # notices) <=> (C7_IterationFails /\ notices = 0)]_vars
    /\ [][notices' \in {notices, notices + 1}]_vars

\* the reply 0xAA 0x07 to a probe has failed two iterations, the notice was
\* printed once
C7_Witness ==
    /\ pc = "probe" /\ notices = 1
    /\ out = <<170>>
    /\ got = 7

(***************************************************************************)
(* C8: recv_response on a complete response: -3 when expected_len >= 2 and *)
(* byte 1 is not 0x80, else byte 0 * 256 + byte 5 (byte 5 only if          *)
(* expected_len > 5); for 8 bytes the result is 0 exactly for byte 1 =     *)
(* 0x80, byte 0 = 0, byte 5 = 0; bytes 2, 3, 4, 6, 7 do not matter; a      *)
(* decoded status is in 0..65535.                                          *)
(***************************************************************************)
C8_Complete == pc = "done" /\ Len(buff) = expected_len /\ got >= 0

C8_RecvDecode ==
    C8_Complete =>
        /\ (expected_len >= 2 /\ buff[2] # 128) => ret = -3
        /\ ~(expected_len >= 2 /\ buff[2] # 128) =>
              /\ ret = 256 * buff[1] + (IF expected_len > 5 THEN buff[6] ELSE 0)
              /\ ret \in 0..65535
        /\ expected_len = 8 =>
              /\ (ret = 0) <=> (buff[2] = 128 /\ buff[1] = 0 /\ buff[6] = 0)
              /\ \A p \in {3, 4, 5, 7, 8}, v \in RespBytes :
                    RecvDecode([buff EXCEPT ![p] = v], 8) = ret

\* an acknowledgement whose other bytes are all 0xFF
C8_Witness ==
    /\ pc = "done" /\ expected_len = 8
    /\ buff = <<0, 128, 255, 255, 255, 0, 255, 255>>
    /\ ret = 0

(***************************************************************************)
(* C9: the mode table: mode, opcode and base address never change in a     *)
(* run; every block carries 0x12 in verify mode and 0x10 in update and     *)
(* init mode, never 0x1B; the first block goes to 0x002000 (update,        *)
(* verify) or 0x01FE00 (init); the init image is 512 zero bytes, sent as   *)
(* 256 zero bytes at 0x01FE00 and 256 zero bytes at 0x01FF00.              *)
(***************************************************************************)
Zeros(n) == [j \in 1..n |-> 0]

C9_State ==
    /\ mode_flag # 27
    /\ \A i \in 1..Len(sent) :
          /\ FrameOpcode(sent[i]) # 27
          /\ ~IsFinalFrame(sent[i]) =>
                FrameOpcode(sent[i]) = (IF mode = "verify" THEN 18 ELSE 16)
    /\ (out # <<>> /\ out[1] = 128) => (sent # <<>> /\ out = sent[Len(sent)])
    /\ Len(sent) >= 1 =>
          /\ ~IsFinalFrame(sent[1])
          /\ FrameAddr(sent[1]) = (IF mode \in {"update", "verify"} THEN 8192 ELSE 130560)
    /\ (mode = "init" /\ pc # "start") =>
          /\ file_buff = Zeros(512)
          /\ Len(sent) <= 3
          /\ Len(sent) >= 1 => (FrameAddr(sent[1]) = 130560 /\ FrameData(sent[1]) = Zeros(256))
          /\ Len(sent) >= 2 =>
                (~IsFinalFrame(sent[2]) /\ FrameAddr(sent[2]) = 130816
                    /\ FrameData(sent[2]) = Zeros(256))
          /\ Len(sent) = 3 => IsFinalFrame(sent[3])
          /\ (pc = "returned" /\ ret = 0) => Len(sent) = 3

C9_Step == mode' = mode /\ mode_flag' = mode_flag /\ flash_adrs' = flash_adrs

C9_ModeTable == [](C9_State) /\ [][C9_Step]_vars

\* a complete init run
C9_Witness ==
    /\ mode = "init" /\ pc = "exit" /\ exit_code = 0
    /\ Len(sent) = 3

(***************************************************************************)
(* C10: load_firmware accepts a file exactly when its size is in           *)
(* 4096..120000 and its 7 bytes at 0xB8 are 69 32 2D 65 6C 65 20; a        *)
(* rejected file gives -2 (-1 when it cannot be stat'ed), no image, and a  *)
(* run that ends with that code, the port never opened, nothing written.   *)
(***************************************************************************)
C10_Valid(name) ==
    /\ Exists(name)
    /\ Len(Disk[name]) >= 4096
    /\ Len(Disk[name]) <= 120000
    /\ \A k \in 1..7 : Disk[name][184 + k] = <<105, 50, 45, 101, 108, 101, 32>>[k]

C10_Code(name) == IF Exists(name) THEN -2 ELSE -1

\* load_firmware on every file of the disk and on a missing one
C10_Load ==
    \A name \in OnDisk \cup {"missing"} :
        LET r == load_firmware(name)
        IN  IF C10_Valid(name)
            THEN r.none = FALSE /\ r.buff = Disk[name] /\ r.size = Len(Disk[name])
            ELSE r.none = TRUE /\ r.buff = <<>> /\ r.size = C10_Code(name)

\* run
C10_Run ==
    (mode # "init" /\ pc # "start") =>
        IF C10_Valid(filename)
        THEN file_buff = Disk[filename] /\ pc # "start"
        ELSE /\ pc = "exit"
             /\ exit_code = C10_Code(filename)
             /\ file_buff = <<>>
             /\ ser = "none"
             /\ out = <<>> /\ sent = <<>> /\ in_buf = <<>>

C10_FirmwareAccepted == C10_Load /\ C10_Run

\* a 4096-byte file whose fourth signature byte is changed is rejected
C10_Witness ==
    /\ filename = "sig3" /\ pc = "exit" /\ exit_code = -2
    /\ ser = "none" /\ out = <<>>

(***************************************************************************)
(* C11: the bytes written by send_command for a payload p are 0x80, the    *)
(* length of p in two little-endian bytes, p, and the CRC-16-CCITT of p    *)
(* alone (polynomial 0x1021, initial value 0xFFFF, MSB first, no           *)
(* reflection, no final XOR) in two little-endian bytes; the CRC of the    *)
(* empty payload is 0xFFFF.                                                *)
(***************************************************************************)
RECURSIVE C11_Xor(_, _)
C11_Xor(a, b) ==
    IF a = 0 THEN b
    ELSE IF b = 0 THEN a
    ELSE (IF a % 2 # b % 2 THEN 1 ELSE 0) + 2 * C11_Xor(a \div 2, b \div 2)

\* the register shifted left k times, the polynomial subtracted whenever a
\* set bit leaves it
RECURSIVE C11_Shift(_, _)
C11_Shift(r, k) ==
    IF k = 0 THEN r
    ELSE C11_Shift(IF r >= 32768 THEN C11_Xor((2 * r) % 65536, 4129) ELSE 2 * r, k - 1)

\* bytes p[lo..hi] (1-based, inclusive) into the register r
RECURSIVE C11_Crc(_, _, _, _)
C11_Crc(r, p, lo, hi) ==
    IF lo > hi THEN r
    ELSE IF lo = hi THEN C11_Shift(C11_Xor(r, 256 * p[lo]), 8)
    ELSE CHOOSE x \in UNION {{C11_Crc(left, p, m + 1, hi) :
                                 left \in {C11_Crc(r, p, lo, m)}} :
                                    m \in {(lo + hi) \div 2}} : TRUE

C11_Framing ==
    /\ calc_crc(<<>>) = 65535
    /\ calc_crc(<<49, 50, 51, 52, 53, 54, 55, 56, 57>>) = 10673
    /\ pc = "done" =>
          LET p == command
              crc == C11_Crc(65535, p, 1, Len(p))
          IN  /\ out = <<128, Len(p) % 256, (Len(p) \div 256) % 256>> \o p
                            \o <<crc % 256, crc \div 256>>
              /\ Len(out) = Len(p) + 5
              /\ out[2] + 256 * out[3] = Len(p)
              /\ FramePayload(out) = p
              /\ out[Len(out) - 1] + 256 * out[Len(out)]
                    = C11_Crc(65535, FramePayload(out), 1, Len(FramePayload(out)))
              /\ sent = <<out>>

\* a payload of 600 bytes, whose length needs the second length byte
C11_Witness ==
    /\ pc = "done"
    /\ Len(command) = 600
    /\ out[2] = 88 /\ out[3] = 2
    /\ Len(out) = 605

(***************************************************************************)
(* C12: a run that opened the serial handle closes it when loRa_update has *)
(* returned, whatever the result (0, a device code, -2, -3), before the    *)
(* result is reported; the handle is open for the whole transfer, and      *)
(* nothing is written or read once it is closed.                           *)
(***************************************************************************)
C12_State ==
    /\ (pc = "exit" /\ ser # "none") => (ser = "closed" /\ exit_code = ret)
    /\ ser = "closed" => pc = "exit"
    /\ ser = "open" <=> pc \in {"reset_cmd", "reset_write", "reset_dtr", "reset_dtr_raise",
                                "update_begin", "probe", "probe_wait", "token_wait",
                                "loop", "recv", "returned"}

C12_Step ==
    /\ pc = "returned" =>
          /\ ser' = "closed" /\ pc' = "exit"
          /\ exit_code' = ret /\ ret' = ret
          /\ out' = out /\ in_buf' = in_buf /\ sent' = sent
    /\ (pc' = "exit" /\ ser = "open") => pc = "returned"
    /\ ser # "open" => (out' = out /\ sent' = sent /\ got' = got /\ buff' = buff)
                         \/ (pc = "open" /\ ser' = "open")

C12_ClosedAtEnd == [](C12_State) /\ [][C12_Step]_vars

\* the run ends on a malformed response with the handle closed
C12_Witness ==
    /\ pc = "exit" /\ ser = "closed"
    /\ exit_code = -3
    /\ sent # <<>>

(***************************************************************************)
(* C13: no framed command is written before the handshake is complete:     *)
(* the handshake is left only from an iteration whose probe was answered   *)
(* 0x55 and whose token is answered 0xAA, frames are written only after    *)
(* that, and from then on every write is a framed command, never a probe   *)
(* byte or the token.                                                      *)
(***************************************************************************)
C13_PastReady ==
    \/ pc \in {"loop", "recv", "returned"}
    \/ (pc = "exit" /\ ser = "closed")

C13_State ==
    /\ ~C13_PastReady => (sent = <<>> /\ (out = <<>> \/ out[1] # 128))
    /\ pc = "token_wait" => got = 85

C13_Step ==
    /\ (~C13_PastReady /\ C13_PastReady') =>
          /\ pc = "token_wait" /\ out = <<105, 50, 76, 111, 82, 97>>
          /\ got = 85 /\ NextReply = 170
          /\ pc' = "loop" /\ sent' = <<>>
    /\ sent' # sent => (C13_PastReady /\ pc = "loop")
    /\ C13_PastReady =>
          /\ C13_PastReady'
          /\ \/ out' = out
             \/ (out'[1] = 128 /\ sent' = Append(sent, out'))

C13_FramesAfterReady == [](C13_State) /\ [][C13_Step]_vars

\* the first frame is on the wire; an earlier iteration of the handshake failed
C13_Witness ==
    /\ pc = "recv" /\ Len(sent) = 1
    /\ out = sent[1] /\ out[1] = 128
    /\ notices = 1

(***************************************************************************)
(* C14: commands and responses alternate: a command is written only at the *)
(* head of the loop, when the 8 bytes of the previous response have been   *)
(* read; while a response is read nothing is written; a read that times    *)
(* out ends the transfer, and no command follows it.                       *)
(***************************************************************************)
C14_State ==
    /\ pc = "recv" => (sent # <<>> /\ Len(buff) < 8 /\ recv_for \in {"block", "final"})
    /\ (pc = "loop" /\ sent # <<>>) => (Len(buff) = 8 /\ got >= 0 /\ recv_for = "block")
    /\ (C13_PastReady /\ pc # "loop" /\ pc # "recv") =>
          (got < 0 <=> (ret = -2 /\ Len(buff) < 8))

C14_Step ==
    /\ sent' # sent =>
          /\ pc = "loop" /\ pc' = "recv"
          /\ Len(sent') = Len(sent) + 1
          /\ buff' = <<>>
    /\ pc = "recv" =>
          /\ sent' = sent /\ out' = out
          /\ IF NextReply < 0
             THEN pc' = "returned" /\ ret' = -2 /\ buff' = buff
             ELSE /\ buff' = Append(buff, NextReply)
                  /\ pc' = "recv" <=> Len(buff') < 8
    /\ pc \in {"returned", "exit"} => (sent' = sent /\ out' = out)

C14_Alternation == [](C14_State) /\ [][C14_Step]_vars

\* the response to the second command stops after three bytes
C14_Witness ==
    /\ pc = "returned" /\ ret = -2 /\ got = -1
    /\ Len(sent) = 2
    /\ buff = <<0, 128, 0>>

(***************************************************************************)
(* C15: recv_response takes the bytes from the transport one at a time, in *)
(* order, and at most expected_len of them; when a byte, the first or a    *)
(* later one, does not arrive in time it returns -2 with the header not    *)
(* checked and nothing decoded, whatever the bytes read so far.            *)
(***************************************************************************)
C15_State ==
    /\ Len(buff) <= expected_len
    /\ pc = "recv" => Len(buff) < expected_len
    /\ pc = "done" =>
          IF Len(buff) < expected_len
          THEN ret = -2 /\ got = -1 /\ in_buf = <<>>
          ELSE got >= 0 /\ ret # -2

C15_Step ==
    pc = "recv" =>
        IF in_buf = <<>>
        THEN /\ pc' = "done" /\ ret' = -2
             /\ buff' = buff /\ in_buf' = in_buf
        ELSE /\ buff' = Append(buff, Head(in_buf))
             /\ in_buf' = Tail(in_buf)
             /\ pc' = "done" <=> Len(buff') = expected_len

C15_TimeoutFirst == [](C15_State) /\ [][C15_Step]_vars

\* seven bytes of an acknowledgement, then silence
C15_Witness ==
    /\ pc = "done" /\ expected_len = 8
    /\ buff = <<0, 128, 0, 0, 0, 0, 0>>
    /\ ret = -2

(***************************************************************************)
(* C16 as stated: the buffered input is discarded before every framed      *)
(* command, and no byte that was received before the command was written   *)
(* is read as part of its response.                                        *)
(***************************************************************************)
C16_Original ==
    /\ [][sent' # sent => flushed' = Len(in_buf)]_vars
    /\ [](pc = "recv" => stale = 0)

(***************************************************************************)
(* C16, amended: send_command discards all the input that is buffered when *)
(* it is entered, so none of it is read as part of the response; the bytes *)
(* that arrive after the discard, also those that arrive before the frame  *)
(* is written, stay and are read as the beginning of the response.         *)
(***************************************************************************)
C16_Step ==
    sent' # sent =>
        /\ flushed' = Len(in_buf)
        /\ stale' <= Len(in_buf')
        /\ SubSeq(in_buf', 1, stale') \in LateArrivals
        /\ SubSeq(in_buf', stale' + 1, Len(in_buf')) \in CmdReplies

C16_State ==
    pc = "recv" =>
        /\ stale <= Len(in_buf)
        /\ stale > 0 => (buff = <<>> /\ SubSeq(in_buf, 1, stale) \in LateArrivals)

C16_Flush == [](C16_State) /\ [][C16_Step]_vars

\* the surplus byte of the first response was discarded before the second
\* command; a byte that came after the discard heads the input
C16_Witness ==
    /\ pc = "recv" /\ Len(sent) = 2
    /\ flushed = 1
    /\ stale = 1 /\ in_buf = <<153, 0, 128, 0, 0, 0, 0, 0, 0>>

(***************************************************************************)
(* C17 as stated: no step of the handshake or of the transfer changes the  *)
(* image bytes or the image's recorded length: when loRa_update returns,   *)
(* file_buff and file_size are what they were when it was called.          *)
(***************************************************************************)
C17_Original ==
    /\ [][file_buff' = file_buff /\ file_size' = file_size]_vars
    /\ [](pc = "returned" => file_size = Len(file_buff))

\* what the code does keep: the bytes, and the length of the buffer
C17_BufferKept ==
    /\ [][file_buff' = file_buff]_vars
    /\ [](C13_PastReady => (Len(file_buff) = total_size /\ file_size = total_size - index))

\* an image of 300 bytes was transferred: the recorded length is 0
C17_Witness ==
    /\ pc = "returned" /\ ret = 0
    /\ Len(file_buff) = 300
    /\ file_size = 0

(***************************************************************************)
(* C18: the session in the block loop: offset + remaining = total, address *)
(* = base + offset, 0 <= remaining <= total, the offset a multiple of 256  *)
(* before each block; the remaining count never grows, shrinks by num      *)
(* exactly when a block is answered with status 0, and is 0 when the final *)
(* command is sent; a block that fails changes none of the three.          *)
(***************************************************************************)
C18_State ==
    (C13_PastReady /\ pc # "exit") =>
        /\ index + file_size = total_size
        /\ total_size = Len(file_buff)
        /\ adrs = flash_adrs + index
        /\ file_size >= 0 /\ file_size <= total_size
        /\ ((pc = "loop" /\ file_size > 0) \/ (pc = "recv" /\ recv_for = "block")) =>
              index % 256 = 0
        /\ (pc = "recv" /\ recv_for = "block") =>
              num = (IF file_size < 256 THEN file_size ELSE 256)
        /\ recv_for = "final" => (file_size = 0 /\ IsFinalFrame(sent[Len(sent)]))

C18_Step ==
    /\ file_size' <= file_size
    /\ (file_size' # file_size \/ (C13_PastReady /\ (adrs' # adrs \/ index' # index))) =>
          /\ pc = "recv" /\ recv_for = "block" /\ pc' = "loop"
          /\ Len(buff') = 8 /\ StatusOf(buff', got') = 0
    /\ (pc = "recv" /\ recv_for = "block" /\ pc' # "recv") =>
          IF StatusOf(buff', got') = 0
          THEN /\ pc' = "loop"
               /\ file_size' = file_size - num
               /\ adrs' = adrs + num
               /\ index' = index + num
          ELSE /\ pc' = "returned"
               /\ file_size' = file_size /\ adrs' = adrs /\ index' = index

C18_Session == [](C18_State) /\ [][C18_Step]_vars

\* the short last block of a 300-byte image was acknowledged
C18_Witness ==
    /\ pc = "loop" /\ total_size = 300
    /\ index = 300 /\ file_size = 0 /\ num = 44
    /\ adrs = flash_adrs + 300

(***************************************************************************)
(* C19: in update and verify mode every block of an image of 4096..120000  *)
(* bytes lies in [0x002000, 0x01FE00), below the region init mode writes;  *)
(* in all modes a block's address is below 2^24 and the three address      *)
(* bytes of its frame carry it whole.                                      *)
(***************************************************************************)
\* a block of k bytes at address a
C19_InFirmwareRegion(a, k) == a >= 8192 /\ a + k <= 130560
C19_Encodable(a) == a >= 0 /\ a < 16777216 /\ Lo8(a) + 256 * Mid8(a) + 65536 * Hi8(a) = a

\* the first and the last block of every length that load_firmware accepts,
\* and every block of the longest, on the schedule of C18
C19_AllLengths ==
    /\ \A n \in FILE_MIN_SIZE..FILE_MAX_SIZE :
          \A i \in {0, BlocksFor(n) - 1} :
             LET a == FlashAdrsOf("update") + BLOCK_SIZE * i
             IN  C19_InFirmwareRegion(a, BlockNum(n - BLOCK_SIZE * i)) /\ C19_Encodable(a)
    /\ LET n == load_firmware("max").size
       IN  /\ n = 120000
           /\ \A i \in 0..(BlocksFor(n) - 1) :
                  LET a == FlashAdrsOf("verify") + BLOCK_SIZE * i
                  IN  C19_InFirmwareRegion(a, BlockNum(n - BLOCK_SIZE * i)) /\ C19_Encodable(a)
    /\ \A i \in 0..(BlocksFor(INIT_SIZE) - 1) :
          C19_Encodable(FlashAdrsOf("init") + BLOCK_SIZE * i)

C19_State ==
    /\ \A i \in 1..Len(sent) :
          IsBlockFrame(sent[i]) =>
             /\ FrameAddr(sent[i]) = flash_adrs + 256 * (i - 1)
             /\ C19_Encodable(flash_adrs + 256 * (i - 1))
             /\ mode \in {"update", "verify"} =>
                   C19_InFirmwareRegion(FrameAddr(sent[i]), Len(FrameData(sent[i])))
    /\ (C13_PastReady /\ pc # "exit") =>
          /\ adrs + BlockNum(file_size) <= flash_adrs + total_size
          /\ C19_Encodable(adrs)
          /\ mode \in {"update", "verify"} =>
                (total_size >= 4096 /\ total_size <= 120000
                    /\ C19_InFirmwareRegion(adrs, BlockNum(file_size)))

C19_AddressRange == C19_AllLengths /\ C19_State

\* the last, short block of a 4140-byte file
C19_Witness ==
    /\ filename = "odd" /\ mode = "verify"
    /\ pc = "recv" /\ Len(sent) = 17
    /\ FrameAddr(sent[17]) = 12288 /\ Len(FrameData(sent[17])) = 44

(***************************************************************************)
(* C20: after the handshake the transfer terminates whatever the device    *)
(* does: every step of the transfer lowers a bounded measure (blocks and   *)
(* final command still to send, bytes of the response still to read), at   *)
(* most ceil(n / 256) blocks and one final command are sent, and           *)
(* loRa_update returns.  The transfer is never left for the handshake      *)
(* again (C20_Step), so "always eventually out of the transfer or          *)
(* returned" says that a run that is past the handshake returns, and       *)
(* "always eventually not reading" that every response read ends.          *)
(***************************************************************************)
\* commands still to send, then bytes still to read
C20_Measure ==
    20 * (BlocksFor(file_size) + (IF recv_for = "final" THEN 0 ELSE 1))
        + (IF pc = "loop" THEN 10 ELSE IF pc = "recv" THEN 9 - Len(buff) ELSE 0)

C20_State ==
    /\ Cardinality({i \in 1..Len(sent) : IsBlockFrame(sent[i])}) <= BlocksFor(Len(file_buff))
    /\ Cardinality({i \in 1..Len(sent) : IsFinalFrame(sent[i])}) <= 1
    /\ C13_PastReady => C20_Measure >= 0
    /\ pc = "recv" => Len(buff) < expected_len

C20_Step ==
    C13_PastReady =>
        /\ C13_PastReady'
        /\ C20_Measure' < C20_Measure
        /\ pc = "recv" => (pc' # "recv" \/ Len(buff') = Len(buff) + 1)

C20_Terminates ==
    /\ [](C20_State)
    /\ [][C20_Step]_vars
    /\ []<>(~C13_PastReady \/ pc = "returned")
    /\ []<>(pc # "recv")

\* all of a 767-byte image was sent to a device that answered every command,
\* the last one with a surplus byte
C20_Witness ==
    /\ pc = "returned"
    /\ Len(file_buff) = 767
    /\ Len(sent) = 4
    /\ in_buf = <<153>>

====
